---- MODULE Spec2Model ----
(***************************************************************************)
(* A model of seratosync's metadata sync (src/seratosync/metadata_sync.py): *)
(* SeratoMetadataSync.remap_path and the sync_all orchestration over a      *)
(* small filesystem.                                                        *)
(*                                                                          *)
(* Strings are sequences of atoms.  An atom is "/" , "." or an indivisible  *)
(* chunk of characters ("Music", "a", "2", ...); no atom is a prefix of     *)
(* another, so str.startswith, slicing and concatenation on the real        *)
(* strings are the same operations on the atom sequences.                   *)
(***************************************************************************)
EXTENDS Naturals, Sequences, FiniteSets

VARIABLES
    source_music,   \* self.source_music (a string)
    target_drive,   \* self.target_drive (a string)
    crate_prefix,   \* self.crate_prefix (a string)
    fs,             \* the filesystem: music directory path -> its content
    pc,             \* position of the sync_all call
    loop,           \* the running category loop: files listed, files to do
    report,         \* what the run printed / returned so far
    shadow,         \* what this run has written, applied to an empty tree
    start,          \* fs at the start of the current run
    prev,           \* fs before and after the previous run
    runs,           \* sync_all calls started
    rp_path,        \* remap_path: the argument of the call
    rp_result,      \* remap_path: the value returned
    rp_pc           \* remap_path: position of the call

vars == <<source_music, target_drive, crate_prefix, fs, pc, loop, report,
          shadow, start, prev, runs, rp_path, rp_result, rp_pc>>

-----------------------------------------------------------------------------
(* Strings *)

SLASH == "/"
MusicPrefix == <<"/", "Music">>

StartsWith(s, p) ==
    /\ Len(p) <= Len(s)
    /\ SubSeq(s, 1, Len(p)) = p

DropFirst(s, n) == SubSeq(s, n + 1, Len(s))

RECURSIVE SplitFrom(_, _, _, _)
SplitFrom(s, i, cur, acc) ==
    IF i > Len(s) THEN Append(acc, cur)
    ELSE IF s[i] = SLASH THEN SplitFrom(s, i + 1, <<>>, Append(acc, cur))
    ELSE SplitFrom(s, i + 1, Append(cur, s[i]), acc)

\* str.split('/')
Split(s) == SplitFrom(s, 1, <<>>, <<>>)

RECURSIVE JoinFrom(_, _)
JoinFrom(comps, i) ==
    IF i > Len(comps) THEN <<>>
    ELSE IF i = Len(comps) THEN comps[i]
    ELSE comps[i] \o <<SLASH>> \o JoinFrom(comps, i + 1)

\* '/'.join(comps)
Join(comps) == JoinFrom(comps, 1)

DOT == <<".">>
DOTDOT == <<".", ".">>

\* posixpath.normpath: 2 for exactly two leading slashes, else 1 or 0
InitialSlashes(path) ==
    IF ~StartsWith(path, <<SLASH>>) THEN 0
    ELSE IF StartsWith(path, <<SLASH, SLASH>>)
            /\ ~StartsWith(path, <<SLASH, SLASH, SLASH>>) THEN 2
    ELSE 1

RECURSIVE NormComps(_, _, _, _)
NormComps(comps, i, new_comps, initial_slashes) ==
    IF i > Len(comps) THEN new_comps
    ELSE LET comp == comps[i] IN
         IF comp = <<>> \/ comp = DOT
         THEN NormComps(comps, i + 1, new_comps, initial_slashes)
         ELSE IF \/ comp # DOTDOT
                 \/ (initial_slashes = 0 /\ new_comps = <<>>)
                 \/ (new_comps # <<>> /\ new_comps[Len(new_comps)] = DOTDOT)
         THEN NormComps(comps, i + 1, Append(new_comps, comp), initial_slashes)
         ELSE IF new_comps # <<>>
         THEN NormComps(comps, i + 1,
                        SubSeq(new_comps, 1, Len(new_comps) - 1), initial_slashes)
         ELSE NormComps(comps, i + 1, new_comps, initial_slashes)

Slashes(n) == [k \in 1..n |-> SLASH]

\* os.path.normpath on a POSIX host
normpath(path) ==
    IF path = <<>> THEN DOT
    ELSE LET initial_slashes == InitialSlashes(path)
             comps == NormComps(Split(path), 1, <<>>, initial_slashes)
             joined == Slashes(initial_slashes) \o Join(comps)
         IN  IF joined = <<>> THEN DOT ELSE joined

\* SeratoMetadataSync.remap_path
remap_path(original_path) ==
    LET p == normpath(original_path) IN
    IF StartsWith(p, source_music)
    THEN MusicPrefix \o DropFirst(p, Len(source_music))
    ELSE p

-----------------------------------------------------------------------------
(* Paths and the filesystem *)

\* pathlib.PurePosixPath(s): repeated and trailing slashes and "." dropped
PurePath(s) ==
    LET comps == SelectSeq(Split(s), LAMBDA c : c # <<>> /\ c # DOT)
    IN  Slashes(InitialSlashes(s)) \o Join(comps)

\* Path(self.source_music), the directory holding source_serato
SrcMusicDir == PurePath(source_music)
\* self.target_music = Path(self.target_drive) / "Music"
TgtMusicDir ==
    LET d == PurePath(target_drive)
    IN  IF d = <<SLASH>> THEN d \o <<"Music">> ELSE d \o MusicPrefix

NoDir == [exists |-> FALSE, files |-> {}]
\* a missing _Serato_ directory
NoSerato == [exists |-> FALSE, sub |-> NoDir, smart |-> NoDir, dbs |-> {},
             prefs |-> {}]
NoMusic == [exists |-> FALSE, serato |-> NoSerato]

\* self.source_serato and self.target_serato, read from a filesystem f
SourceSerato(f) == f[SrcMusicDir].serato
TargetSerato(f) == f[TgtMusicDir].serato

CRATE_EXT == ".crate"
SCRATE_EXT == ".scrate"

\* Path.glob("*" + ext) on a directory
Glob(dir, ext) == {f \in dir.files : f.name[Len(f.name)] = ext}

Names(files) == {f.name : f \in files}

\* the file name of source_db and of target_db
source_db_name == <<"database V2">>
target_db_name == <<"database V2">>

\* Path.exists and the content of a database file of tree t
HasDb(t, name) == \E d \in t.dbs : d.name = name
DbFile(t, name) == CHOOSE d \in t.dbs : d.name = name

\* files_to_copy
files_to_copy == <<"neworder.pref", "window.pref", "collapsed.pref">>

\* mkdir(parents=True, exist_ok=True) of _Serato_/Subcrates in tree t
MkdirSub(t) == [t EXCEPT !.exists = TRUE, !.sub.exists = TRUE]
\* mkdir(parents=True, exist_ok=True) of _Serato_/SmartCrates in tree t
MkdirSmart(t) == [t EXCEPT !.exists = TRUE, !.smart.exists = TRUE]
\* self.target_serato.mkdir(parents=True, exist_ok=True)
MkdirSerato(t) == [t EXCEPT !.exists = TRUE]

\* a file written into a directory replaces the file of that name
PutFile(dir, file) ==
    [dir EXCEPT !.files = {g \in @ : g.name # file.name} \cup {file}]

\* mutant of rmtree: only the files directly in the directory are removed
rmtree_keeps_subdirectories(t) == [t EXCEPT !.dbs = {}, !.prefs = {}]

\* shutil.rmtree(self.target_serato)
rmtree(t) == NoSerato

-----------------------------------------------------------------------------
(* The per-artifact try blocks *)

\* the artifact's constructor, modify_tracks and save each raise or not; a
\* source file's "fail" field names the first call that raises for it
Opens(f) == f.fail # "open"
\* mutant of Transforms: the constructor's error is swallowed
Transforms_ignores_open(f) == f.fail # "transform"
Transforms(f) == Opens(f) /\ f.fail # "transform"
Saves(f) == Transforms(f) /\ f.fail # "save"

\* mutant of new_name: the prefix is appended to the name
new_name_prefix_after(name) == name \o crate_prefix

\* new_name in sync_crates and sync_smart_crates
new_name(name) == IF crate_prefix # <<>> THEN crate_prefix \o name ELSE name

\* modify_track of sync_crates and sync_smart_crates
modify_track(relpath) == remap_path(relpath)

\* the crate as saved: every track through modify_track, under new_name
SavedCrate(f) ==
    [name |-> new_name(f.name), tracks |-> [i \in 1..Len(f.tracks) |-> modify_track(f.tracks[i])],
     fail |-> "ok"]

\* mutant of db_modify_track: the played field is left as read
db_modify_track_keeps_played(track) ==
    [path |-> remap_path(track.path), played |-> track.played]

\* modify_track of sync_database
db_modify_track(track) ==
    [path |-> remap_path(track.path), played |-> FALSE]

\* the database as saved
SavedDb(db) ==
    [name |-> target_db_name,
     tracks |-> [i \in 1..Len(db.tracks) |-> db_modify_track(db.tracks[i])],
     fail |-> "ok"]

\* crate.save(str(target_file)) under target_crates_dir of tree t
PutCrate(t, f) == [t EXCEPT !.sub = PutFile(@, SavedCrate(f))]
\* scrate.save(str(target_file)) under target_smart_dir of tree t
PutSmartCrate(t, f) == [t EXCEPT !.smart = PutFile(@, SavedCrate(f))]
\* mkdir of target_serato, then db.save(str(target_db))
PutDb(t, db) ==
    [MkdirSerato(t) EXCEPT !.dbs = PutFile([files |-> @], SavedDb(db)).files]
\* shutil.copy2 of each of the files present into tree t
CopyPrefs(t, present) ==
    [t EXCEPT !.prefs = {q \in @ : q.name \notin Names(present)} \cup present]

-----------------------------------------------------------------------------
(* sync_all *)

MaxRuns == 2

\* mutant of sync_all_steps: the old tree is removed before validation
sync_all_steps_clear_first ==
    <<"clear", "validate", "crates", "smart", "database", "other", "summary">>

\* the calls of sync_all, in order
sync_all_steps ==
    <<"validate", "clear", "crates", "smart", "database", "other", "summary">>

StepAfter(s) ==
    LET i == CHOOSE k \in 1..Len(sync_all_steps) : sync_all_steps[k] = s
    IN  sync_all_steps[i + 1]

NewReport ==
    [error |-> "none",
     crate_files |-> {}, crates_ok |-> {}, crates_fail |-> {}, crate_count |-> 0,
     smart_files |-> {}, smart_ok |-> {}, smart_fail |-> {}, smart_count |-> 0,
     db |-> "none", copied |-> {}, other_count |-> 0]

NoLoop == [files |-> {}, todo |-> {}]

\* filesystem f with tree as the content of self.target_serato
SetTarget(f, tree) ==
    [f EXCEPT ![TgtMusicDir] = [exists |-> TRUE, serato |-> tree]]

\* validate_paths: "ok", or which directory is missing
validate_paths ==
    IF ~SourceSerato(fs).exists THEN "source"
    ELSE IF ~fs[TgtMusicDir].exists THEN "target"
    ELSE "ok"

Validate ==
    /\ pc = "validate"
    /\ IF validate_paths = "ok"
       THEN /\ pc' = StepAfter("validate")
            /\ UNCHANGED report
       ELSE /\ pc' = "failed"
            /\ report' = [report EXCEPT !.error = "validation"]
    /\ UNCHANGED <<source_music, target_drive, crate_prefix, fs, loop, shadow,
                   start, prev, runs, rp_path, rp_result, rp_pc>>

ClearTarget ==
    /\ pc = "clear"
    /\ fs' = IF TargetSerato(fs).exists
             THEN [fs EXCEPT ![TgtMusicDir].serato = rmtree(@)]
             ELSE fs
    /\ pc' = StepAfter("clear")
    /\ UNCHANGED <<source_music, target_drive, crate_prefix, loop, report,
                   shadow, start, prev, runs, rp_path, rp_result, rp_pc>>

SyncCratesBegin ==
    /\ pc = "crates"
    /\ IF ~SourceSerato(fs).sub.exists
       THEN /\ pc' = StepAfter("crates")
            /\ report' = [report EXCEPT !.crate_count = 0]
            /\ UNCHANGED <<fs, shadow, loop>>
       ELSE /\ fs' = SetTarget(fs, MkdirSub(TargetSerato(fs)))
            /\ shadow' = MkdirSub(shadow)
            /\ LET crate_files == Glob(SourceSerato(fs).sub, CRATE_EXT)
               IN  /\ loop' = [files |-> crate_files, todo |-> crate_files]
                   /\ report' = [report EXCEPT !.crate_files = Names(crate_files)]
            /\ pc' = "crate_loop"
    /\ UNCHANGED <<source_music, target_drive, crate_prefix, start, prev, runs,
                   rp_path, rp_result, rp_pc>>

\* one iteration of the loop over crate_files, in any listing order
SyncCrateFile ==
    /\ pc = "crate_loop"
    /\ \E f \in loop.todo :
         /\ IF Saves(f)
            THEN /\ fs' = SetTarget(fs, PutCrate(TargetSerato(fs), f))
                 /\ shadow' = PutCrate(shadow, f)
                 /\ report' = [report EXCEPT !.crates_ok = @ \cup {f.name}]
            ELSE /\ report' = [report EXCEPT !.crates_fail = @ \cup {f.name}]
                 /\ UNCHANGED <<fs, shadow>>
         /\ loop' = [loop EXCEPT !.todo = @ \ {f}]
    /\ UNCHANGED <<source_music, target_drive, crate_prefix, pc, start, prev,
                   runs, rp_path, rp_result, rp_pc>>

SyncCratesEnd ==
    /\ pc = "crate_loop"
    /\ loop.todo = {}
    /\ report' = [report EXCEPT !.crate_count = Cardinality(loop.files)]
    /\ loop' = NoLoop
    /\ pc' = StepAfter("crates")
    /\ UNCHANGED <<source_music, target_drive, crate_prefix, fs, shadow, start,
                   prev, runs, rp_path, rp_result, rp_pc>>

SyncSmartCratesBegin ==
    /\ pc = "smart"
    /\ IF ~SourceSerato(fs).smart.exists
       THEN /\ pc' = StepAfter("smart")
            /\ report' = [report EXCEPT !.smart_count = 0]
            /\ UNCHANGED <<fs, shadow, loop>>
       ELSE /\ fs' = SetTarget(fs, MkdirSmart(TargetSerato(fs)))
            /\ shadow' = MkdirSmart(shadow)
            /\ LET smart_crate_files == Glob(SourceSerato(fs).smart, SCRATE_EXT)
               IN  /\ loop' = [files |-> smart_crate_files,
                               todo |-> smart_crate_files]
                   /\ report' = [report EXCEPT
                                   !.smart_files = Names(smart_crate_files)]
            /\ pc' = "smart_loop"
    /\ UNCHANGED <<source_music, target_drive, crate_prefix, start, prev, runs,
                   rp_path, rp_result, rp_pc>>

SyncSmartCrateFile ==
    /\ pc = "smart_loop"
    /\ \E f \in loop.todo :
         /\ IF Saves(f)
            THEN /\ fs' = SetTarget(fs, PutSmartCrate(TargetSerato(fs), f))
                 /\ shadow' = PutSmartCrate(shadow, f)
                 /\ report' = [report EXCEPT !.smart_ok = @ \cup {f.name}]
            ELSE /\ report' = [report EXCEPT !.smart_fail = @ \cup {f.name}]
                 /\ UNCHANGED <<fs, shadow>>
         /\ loop' = [loop EXCEPT !.todo = @ \ {f}]
    /\ UNCHANGED <<source_music, target_drive, crate_prefix, pc, start, prev,
                   runs, rp_path, rp_result, rp_pc>>

SyncSmartCratesEnd ==
    /\ pc = "smart_loop"
    /\ loop.todo = {}
    /\ report' = [report EXCEPT !.smart_count = Cardinality(loop.files)]
    /\ loop' = NoLoop
    /\ pc' = StepAfter("smart")
    /\ UNCHANGED <<source_music, target_drive, crate_prefix, fs, shadow, start,
                   prev, runs, rp_path, rp_result, rp_pc>>

SyncDatabase ==
    /\ pc = "database"
    /\ IF ~HasDb(SourceSerato(fs), source_db_name)
       THEN /\ report' = [report EXCEPT !.db = "absent"]
            /\ UNCHANGED <<fs, shadow>>
       ELSE LET db == DbFile(SourceSerato(fs), source_db_name) IN
       IF ~Transforms(db)
       THEN /\ report' = [report EXCEPT !.db = "failed"]
            /\ UNCHANGED <<fs, shadow>>
       ELSE IF ~Saves(db)
       THEN /\ fs' = SetTarget(fs, MkdirSerato(TargetSerato(fs)))
            /\ shadow' = MkdirSerato(shadow)
            /\ report' = [report EXCEPT !.db = "failed"]
       ELSE /\ fs' = SetTarget(fs, PutDb(TargetSerato(fs), db))
            /\ shadow' = PutDb(shadow, db)
            /\ report' = [report EXCEPT !.db = "ok"]
    /\ pc' = StepAfter("database")
    /\ UNCHANGED <<source_music, target_drive, crate_prefix, loop, start, prev,
                   runs, rp_path, rp_result, rp_pc>>

\* the source files that the loop over files_to_copy finds
PrefsToCopy(f) ==
    {p \in SourceSerato(f).prefs :
        \E i \in 1..Len(files_to_copy) : files_to_copy[i] = p.name}

\* shutil.copy2 raises when the target's directory is missing
\* (FileNotFoundError) or when source and target are one file (SameFileError)
Copy2Raises == ~TargetSerato(fs).exists \/ SrcMusicDir = TgtMusicDir

SyncOtherFiles ==
    /\ pc = "other"
    /\ LET present == PrefsToCopy(fs) IN
       IF present = {}
       THEN /\ report' = [report EXCEPT !.other_count = 0]
            /\ pc' = StepAfter("other")
            /\ UNCHANGED <<fs, shadow>>
       ELSE IF Copy2Raises
       THEN /\ report' = [report EXCEPT !.error = "copy"]
            /\ pc' = "failed"
            /\ UNCHANGED <<fs, shadow>>
       ELSE /\ fs' = SetTarget(fs, CopyPrefs(TargetSerato(fs), present))
            /\ shadow' = CopyPrefs(shadow, present)
            /\ report' = [report EXCEPT !.other_count = Cardinality(present),
                                        !.copied = Names(present)]
            /\ pc' = StepAfter("other")
    /\ UNCHANGED <<source_music, target_drive, crate_prefix, loop, start, prev,
                   runs, rp_path, rp_result, rp_pc>>

Summary ==
    /\ pc = "summary"
    /\ pc' = "done"
    /\ UNCHANGED <<source_music, target_drive, crate_prefix, fs, loop, report,
                   shadow, start, prev, runs, rp_path, rp_result, rp_pc>>

\* main() has returned (0 after "done", 1 after "failed"); it is run again
RunAgain ==
    /\ pc \in {"done", "failed"}
    /\ runs < MaxRuns
    /\ runs' = runs + 1
    /\ prev' = [valid |-> TRUE, before |-> start, after |-> fs]
    /\ start' = fs
    /\ shadow' = NoSerato
    /\ report' = NewReport
    /\ loop' = NoLoop
    /\ pc' = sync_all_steps[1]
    /\ UNCHANGED <<source_music, target_drive, crate_prefix, fs,
                   rp_path, rp_result, rp_pc>>

-----------------------------------------------------------------------------
(* The configurations and filesystems the runs start from *)

RootA == <<"/", "a", "/", "Music">>
RootM == <<"/", "Music", "/", "a">>

Configs ==
    { [source_music |-> RootA, target |-> <<"/", "v">>, crate_prefix |-> <<>>],
      \* target/Music is source_music
      [source_music |-> RootA, target |-> <<"/", "a">>, crate_prefix |-> <<>>],
      [source_music |-> RootM, target |-> <<"/", "v">>, crate_prefix |-> <<"USB_">>] }

TrackIn == <<"/", "a", "/", "Music", "/", "x">>
TrackDeep == <<"/", "Music", "/", "a", "/", "a", "/", "x">>
TrackOut == <<"/", "b", "/", ".", "/", "x">>
TrackSibling == <<"/", "a", "/", "Music", "2", "/", "x">>

CrateNames == {<<"A", CRATE_EXT>>, <<"B", CRATE_EXT>>, <<"C", CRATE_EXT>>}
SmartNames == {<<"S", SCRATE_EXT>>}
CrateFails == {"ok", "open"}
SmartFails == {"ok", "transform"}
DbFails == {"open", "save"}

TracksOf(name) ==
    IF name[1] = "A" THEN <<TrackIn, TrackDeep>>
    ELSE IF name[1] = "B" THEN <<TrackOut>>
    ELSE IF name[1] = "C" THEN <<TrackSibling, TrackIn>>
    ELSE <<TrackDeep, TrackOut>>

\* a file the globs do not match
Stray == [name |-> <<"notes", ".txt">>, tracks |-> <<>>, fail |-> "open"]

DirsOf(names, fails) ==
    {NoDir} \cup UNION {
        {[exists |-> TRUE,
          files |-> {[name |-> n, tracks |-> TracksOf(n), fail |-> m[n]] : n \in S}
                    \cup {Stray}] : m \in [S -> fails]}
        : S \in SUBSET names}

\* the top-level database files of a source: none, or "database V2"
SourceDbs ==
    {{}}
    \cup {{[name |-> source_db_name, fail |-> "ok",
            tracks |-> <<[path |-> TrackIn, played |-> a],
                         [path |-> TrackOut, played |-> b]>>]} : a, b \in BOOLEAN}
    \cup {{[name |-> source_db_name, fail |-> m,
            tracks |-> <<[path |-> TrackIn, played |-> TRUE]>>]} : m \in DbFails}

\* which of the files_to_copy the source holds
PrefSets ==
    {{}, {files_to_copy[1]}, {files_to_copy[2], files_to_copy[3]},
     {files_to_copy[1], files_to_copy[2], files_to_copy[3]}}
\* a preference file that is not in files_to_copy
OtherPref == [name |-> "history.pref", data |-> "new"]

SourceSeratos ==
    {NoSerato}
    \cup {[exists |-> TRUE, sub |-> s, smart |-> m, dbs |-> d,
           prefs |-> {[name |-> n, data |-> "new"] : n \in P} \cup {OtherPref}]
          : s \in DirsOf(CrateNames, CrateFails),
            m \in DirsOf(SmartNames, SmartFails),
            d \in SourceDbs, P \in PrefSets}

\* what an earlier sync, of another library, left on the drive
StaleSerato ==
    [exists |-> TRUE,
     sub |-> [exists |-> TRUE,
              files |-> {[name |-> <<"A", CRATE_EXT>>, tracks |-> <<TrackOut>>,
                          fail |-> "ok"],
                         [name |-> <<"Old", CRATE_EXT>>, tracks |-> <<TrackOut>>,
                          fail |-> "ok"]}],
     smart |-> [exists |-> TRUE,
                files |-> {[name |-> <<"Old", SCRATE_EXT>>, tracks |-> <<>>,
                            fail |-> "ok"]}],
     dbs |-> {[name |-> target_db_name, fail |-> "ok",
               tracks |-> <<[path |-> TrackOut, played |-> TRUE]>>]},
     prefs |-> {[name |-> "window.pref", data |-> "old"],
                [name |-> "old.pref", data |-> "old"]}]

TargetMusics ==
    {NoMusic, [exists |-> TRUE, serato |-> NoSerato],
     [exists |-> TRUE, serato |-> StaleSerato]}

Init ==
    /\ \E c \in Configs :
         /\ source_music = c.source_music
         /\ target_drive = c.target
         /\ crate_prefix = c.crate_prefix
    /\ \E s \in SourceSeratos, t \in TargetMusics :
         fs = [d \in {SrcMusicDir, TgtMusicDir} |->
                 IF d = SrcMusicDir THEN [exists |-> TRUE, serato |-> s] ELSE t]
    /\ pc = sync_all_steps[1]
    /\ loop = NoLoop
    /\ report = NewReport
    /\ shadow = NoSerato
    /\ start = fs
    /\ prev = [valid |-> FALSE, before |-> fs, after |-> fs]
    /\ runs = 1
    /\ rp_path = <<>>
    /\ rp_result = <<>>
    /\ rp_pc = "idle"

Next ==
    \/ Validate
    \/ ClearTarget
    \/ SyncCratesBegin
    \/ SyncCrateFile
    \/ SyncCratesEnd
    \/ SyncSmartCratesBegin
    \/ SyncSmartCrateFile
    \/ SyncSmartCratesEnd
    \/ SyncDatabase
    \/ SyncOtherFiles
    \/ Summary
    \/ RunAgain

Spec == Init /\ [][Next]_vars

-----------------------------------------------------------------------------
(* remap_path on its own: every short path against several source roots *)

MaxPathLen == 5

Atoms == {"/", ".", "a", "Music", "2"}
RemapPaths == UNION {[1..n -> Atoms] : n \in 0..MaxPathLen}
RemapRoots ==
    {<<"/", "Music">>, <<"/", "Music", "/">>, <<"/", "a">>, RootA}

InitRemap ==
    /\ source_music \in RemapRoots
    /\ rp_path \in RemapPaths
    /\ rp_result = <<>>
    /\ rp_pc = "call"
    /\ target_drive = <<"/", "v">>
    /\ crate_prefix = <<>>
    /\ fs = [d \in {SrcMusicDir, TgtMusicDir} |-> NoMusic]
    /\ pc = "done"
    /\ loop = NoLoop
    /\ report = NewReport
    /\ shadow = NoSerato
    /\ start = fs
    /\ prev = [valid |-> FALSE, before |-> fs, after |-> fs]
    /\ runs = MaxRuns

RemapCall ==
    /\ rp_pc = "call"
    /\ rp_result' = remap_path(rp_path)
    /\ rp_pc' = "return"
    /\ UNCHANGED <<source_music, target_drive, crate_prefix, fs, pc, loop,
                   report, shadow, start, prev, runs, rp_path>>

NextRemap == RemapCall

SpecRemap == InitRemap /\ [][NextRemap]_vars

-----------------------------------------------------------------------------
(* Properties *)

RunEnded == pc \in {"done", "failed"}
ValidationFailed == pc = "failed" /\ report.error = "validation"
\* the run got past validate_paths and has ended, normally or by an exception
ValidatedRunEnded == RunEnded /\ report.error # "validation"

\* C1: when validate_paths raises (source _Serato_ or target Music missing)
\* the run ends in a fatal error and the filesystem is exactly as it was at
\* the start of the run: nothing deleted, created or written.
C1_ValidationFailureMutatesNothing ==
    ValidationFailed => fs = start

\* C1 witness: a run that failed validation while the target still holds an
\* old metadata tree
C1_Witness ==
    /\ ValidationFailed
    /\ TargetSerato(fs) = StaleSerato

SomeArtifactFailed ==
    \/ report.crates_fail # {}
    \/ report.smart_fail # {}
    \/ report.db = "failed"

AllStepsCompleted ==
    /\ pc = "done"
    /\ report.crates_ok \cup report.crates_fail = report.crate_files
    /\ report.smart_ok \cup report.smart_fail = report.smart_files
    /\ report.db # "none"
    /\ report.copied = Names(PrefsToCopy(fs))

\* C2: in a run that passed validation, a failing crate, smart crate or
\* database never prevents the rest: every listed file of the category is
\* attempted and every later category, the preference files included, runs
\* to completion.
C2_FailureNeverPreventsLaterSteps ==
    (ValidatedRunEnded /\ SomeArtifactFailed) => AllStepsCompleted

PastCrates ==
    pc \in {"smart", "smart_loop", "database", "other", "summary", "done"}
    \/ (pc = "failed" /\ report.error = "copy")
PastSmartCrates ==
    pc \in {"database", "other", "summary", "done"}
    \/ (pc = "failed" /\ report.error = "copy")

\* of n = |files| source files, the k that fail are reported as failures by
\* name, the n-k others as successes by name, n is the count returned, and
\* the target directory holds exactly the n-k successes under prefixed names
CategoryReported(files, ok, failed, count, target_dir) ==
    LET bad == {f \in files : f.fail # "ok"}
        good == files \ bad
    IN  /\ failed = Names(bad)
        /\ ok = Names(good)
        /\ Cardinality(failed) + Cardinality(ok) = Cardinality(files)
        /\ count = Cardinality(files)
        /\ Names(target_dir.files) = {crate_prefix \o n : n \in Names(good)}
        /\ Cardinality(target_dir.files) = Cardinality(files) - Cardinality(bad)

\* C3: for a crate (or smart-crate) category with n source files of which k
\* fail, the run reports k failures and n-k successes, each by artifact
\* name, and the target category directory holds exactly the n-k successfully
\* rewritten artifacts and none of the k failed ones.
C3_FailuresCountedAndIsolated ==
    /\ PastCrates =>
         CategoryReported(Glob(SourceSerato(fs).sub, CRATE_EXT),
                          report.crates_ok, report.crates_fail,
                          report.crate_count, TargetSerato(fs).sub)
    /\ PastSmartCrates =>
         CategoryReported(Glob(SourceSerato(fs).smart, SCRATE_EXT),
                          report.smart_ok, report.smart_fail,
                          report.smart_count, TargetSerato(fs).smart)

\* C3 witness: three crates, one of which failed, two written
C3_Witness ==
    /\ pc = "done"
    /\ Cardinality(report.crate_files) = 3
    /\ Cardinality(report.crates_fail) = 1
    /\ Cardinality(TargetSerato(fs).sub.files) = 2
    /\ report.smart_fail # {}

\* C4: after a run that passed validation the target metadata tree holds only
\* what that run wrote, whatever it held before; and a second run against an
\* unchanged source leaves the same target metadata tree as the first.
C4_RerunSameTreeNoStale ==
    /\ ValidatedRunEnded => TargetSerato(fs) = shadow
    /\ (RunEnded /\ prev.valid
            /\ SourceSerato(start) = SourceSerato(prev.before))
         => TargetSerato(fs) = TargetSerato(prev.after)

\* C4 witness: the second of two completed runs, the first of which found an
\* old tree on the target and wrote a new one
C4_Witness ==
    /\ pc = "done"
    /\ runs = 2
    /\ prev.valid
    /\ TargetSerato(prev.before) = StaleSerato
    /\ SourceSerato(start) = SourceSerato(prev.before)
    /\ TargetSerato(fs).sub.files # {}
    /\ TargetSerato(fs).prefs # {}

\* C5: after a successful database sync every track of the target's
\* "database V2" has played = FALSE, whatever the source values were.
C5_PlayedResetEverywhere ==
    report.db = "ok" =>
        /\ HasDb(TargetSerato(fs), target_db_name)
        /\ LET src == DbFile(SourceSerato(fs), source_db_name)
               dst == DbFile(TargetSerato(fs), target_db_name)
           IN  /\ Len(dst.tracks) = Len(src.tracks)
               /\ \A i \in 1..Len(dst.tracks) : dst.tracks[i].played = FALSE

\* C5 witness: a synced database whose source had a played track that was
\* remapped and a played track whose path passed through
C5_Witness ==
    /\ report.db = "ok"
    /\ LET src == DbFile(SourceSerato(fs), source_db_name)
           dst == DbFile(TargetSerato(fs), target_db_name)
       IN  /\ \A i \in 1..Len(src.tracks) : src.tracks[i].played
           /\ \E i \in 1..Len(src.tracks) :
                dst.tracks[i].path = normpath(src.tracks[i].path)
           /\ \E i \in 1..Len(src.tracks) :
                dst.tracks[i].path # normpath(src.tracks[i].path)

ComponentsOf(path) == SelectSeq(Split(normpath(path)), LAMBDA c : c # <<>>)

\* path p lies in the directory tree of root (whole components)
Under(p, root) ==
    /\ InitialSlashes(normpath(p)) = InitialSlashes(normpath(root))
    /\ StartsWith(ComponentsOf(p), ComponentsOf(root))

\* the part of p below root, with its leading separator
BelowRoot(p, root) ==
    LET rest == DropFirst(ComponentsOf(p), Len(ComponentsOf(root)))
    IN  IF rest = <<>> THEN <<>> ELSE <<SLASH>> \o Join(rest)

\* C6: for every path p not under source_music, a sibling directory whose
\* name begins with the root's name included, remap_path(p) = normpath(p).
C6_OutsidePathsPassThrough ==
    (rp_pc = "return" /\ ~Under(rp_path, source_music))
        => rp_result = normpath(rp_path)

\* C7: for every path p under source_music, with or without a trailing
\* separator on source_music, remap_path(p) is "/Music" followed by the part
\* of p below the root: "/Music/<rest>".
C7_InsidePathsGoUnderMusic ==
    (rp_pc = "return" /\ Under(rp_path, source_music))
        => rp_result = MusicPrefix \o BelowRoot(rp_path, source_music)

RemappedOnce(tracks) == [i \in 1..Len(tracks) |-> remap_path(tracks[i])]

SavedUnderPrefixedName(files, ok, target_dir) ==
    \A f \in files : f.name \in ok =>
        /\ \E g \in target_dir.files :
              /\ g.name = crate_prefix \o f.name
              /\ g.tracks = RemappedOnce(f.tracks)
        /\ crate_prefix # <<>> => f.name \notin Names(target_dir.files)

\* C8: every crate and smart crate processed successfully is written as
\* crate_prefix + original name in the matching target directory with every
\* track path remapped by remap_path exactly once; the database is written
\* as "database V2", without the prefix.
C8_PrefixedNamesRemappedTracks ==
    /\ SavedUnderPrefixedName(Glob(SourceSerato(fs).sub, CRATE_EXT),
                              report.crates_ok, TargetSerato(fs).sub)
    /\ SavedUnderPrefixedName(Glob(SourceSerato(fs).smart, SCRATE_EXT),
                              report.smart_ok, TargetSerato(fs).smart)
    /\ report.db = "ok" =>
         Names(TargetSerato(fs).dbs) = {<<"database V2">>}

\* C8 witness: a finished run with a prefix that wrote a crate holding a track
\* that remapping twice would change again, a smart crate and the database
C8_Witness ==
    /\ pc = "done"
    /\ crate_prefix # <<>>
    /\ report.smart_ok # {}
    /\ report.db = "ok"
    /\ \E f \in Glob(SourceSerato(fs).sub, CRATE_EXT) :
          /\ f.name \in report.crates_ok
          /\ \E i \in 1..Len(f.tracks) :
                remap_path(remap_path(f.tracks[i])) # remap_path(f.tracks[i])

\* C9: in every run that passed validation sync_other_files completes without
\* raising, copies each of the three preference files the source holds into
\* the target metadata directory and returns how many it copied.
C9_OtherFilesAlwaysCompletes ==
    ValidatedRunEnded =>
        /\ pc = "done"
        /\ report.copied = Names(PrefsToCopy(start))
        /\ report.other_count = Cardinality(PrefsToCopy(start))
        /\ PrefsToCopy(start) \subseteq TargetSerato(fs).prefs

\* C10: a sync run never deletes or modifies anything under the source
\* metadata directory, also when source_music is target/Music.
C10_SourceTreeUntouched ==
    SourceSerato(fs) = SourceSerato(start)

====
